---- MODULE Spec2Model ----
(***************************************************************************)
(* Model of src/main.py: read_graph_from_csv builds a networkx Graph from  *)
(* the rows of a CSV file, find_minimum_dominating_set states the minimum  *)
(* dominating set problem as a 0/1 linear programme (pulp) and returns the *)
(* vertices whose variable is 1 in the solution the solver hands back.     *)
(***************************************************************************)
EXTENDS Integers, Sequences, FiniteSets, TLC

\* Bounds of the model.
MaxRows == 2
MaxCalls == 2

\* The values a CSV cell can take in the model.
Vertices == {"a", "b", "c"}
WeightFields == {"1", "2.5", "abc"}

VARIABLES
    G,              \* the networkx graph: node (insertion order), adj, weight
    rows,           \* the CSV rows whose edge has been inserted, in order
    pc,             \* "reading" | "built" | "solved" | "error"
    err,            \* the exception that ended the run, "" if none
    dominating_set, \* the list returned by the last find_minimum_dominating_set
    status,         \* prob.status of the last LpProblem
    calls,          \* number of find_minimum_dominating_set calls made
    prevSize,       \* size of the list returned by the call before the last
    budget          \* the maxNodes argument of the last call, -1 if none given

vars == <<G, rows, pc, err, dominating_set, status, calls, prevSize, budget>>

----------------------------------------------------------------------------
\* float(row['Weight']): the value (in tenths), or the exception raised.
ParseFloat(s) ==
    CASE s = "1" -> [raises |-> "", value |-> 10]
      [] s = "2.5" -> [raises |-> "", value |-> 25]
      [] OTHER -> [raises |-> "ValueError", value |-> 0]

Rows == [Source : Vertices, Target : Vertices, Weight : WeightFields]

\* The shape of the state.
TypeOK ==
    /\ G.node \in Seq(Vertices)
    /\ DOMAIN G.adj \subseteq Vertices
    /\ \A v \in DOMAIN G.adj : G.adj[v] \subseteq Vertices
    /\ DOMAIN G.weight \subseteq Vertices \X Vertices
    /\ \A p \in DOMAIN G.weight : G.weight[p] \in {10, 25}
    /\ rows \in Seq(Rows)
    /\ Len(rows) <= MaxRows
    /\ pc \in {"reading", "built", "solved", "error"}
    /\ err \in {"", "ValueError", "TypeError"}
    /\ dominating_set \in Seq(Vertices)
    /\ status \in {"Not Solved", "Optimal", "Infeasible"}
    /\ calls \in 0..MaxCalls
    /\ prevSize \in -1..Cardinality(Vertices)
    /\ budget \in {-1, 0}

\* nx.Graph()
NewGraph == [node |-> <<>>, adj |-> [x \in {} |-> {}], weight |-> [p \in {} |-> 0]]

\* G.nodes() as a set
NodeSet(g) == {g.node[i] : i \in 1..Len(g.node)}

\* G.neighbors(i)
Neighbors(g, i) == g.adj[i]

\* A plausible slip: the edge is stored in one direction only.
add_edge_directed(g, u, v, w) ==
    LET n1 == IF u \in NodeSet(g) THEN g.node ELSE Append(g.node, u)
        n2 == IF v \in {n1[i] : i \in 1..Len(n1)} THEN n1 ELSE Append(n1, v)
        ns == {n2[i] : i \in 1..Len(n2)}
        old(x) == IF x \in DOMAIN g.adj THEN g.adj[x] ELSE {}
    IN  [node |-> n2,
         adj |-> [x \in ns |-> old(x) \cup (IF x = u THEN {v} ELSE {})],
         weight |-> [p \in DOMAIN g.weight \cup {<<u, v>>} |->
                        IF p = <<u, v>> THEN w ELSE g.weight[p]]]

\* A plausible slip: the target endpoint is linked but never registered as a node.
add_edge_no_target(g, u, v, w) ==
    LET n1 == IF u \in NodeSet(g) THEN g.node ELSE Append(g.node, u)
        old(x) == IF x \in DOMAIN g.adj THEN g.adj[x] ELSE {}
    IN  [node |-> n1,
         adj |-> [x \in DOMAIN g.adj \cup {u, v} |->
                     old(x) \cup (IF x = u THEN {v} ELSE {})
                            \cup (IF x = v THEN {u} ELSE {})],
         weight |-> [p \in DOMAIN g.weight \cup {<<u, v>>, <<v, u>>} |->
                        IF p \in {<<u, v>>, <<v, u>>} THEN w ELSE g.weight[p]]]

\* G.add_edge(u, v, weight=w): both endpoints become nodes (in first-seen
\* order), v is linked to u and u to v, and the edge's weight is (re)written.
\* No endpoint is refused: u = v stores a self-loop.
add_edge(g, u, v, w) ==
    LET n1 == IF u \in NodeSet(g) THEN g.node ELSE Append(g.node, u)
        n2 == IF v \in {n1[i] : i \in 1..Len(n1)} THEN n1 ELSE Append(n1, v)
        ns == {n2[i] : i \in 1..Len(n2)}
        old(x) == IF x \in DOMAIN g.adj THEN g.adj[x] ELSE {}
    IN  [node |-> n2,
         adj |-> [x \in ns |->
                     old(x) \cup (IF x = u THEN {v} ELSE {})
                            \cup (IF x = v THEN {u} ELSE {})],
         weight |-> [p \in DOMAIN g.weight \cup {<<u, v>>, <<v, u>>} |->
                        IF p \in {<<u, v>>, <<v, u>>} THEN w ELSE g.weight[p]]]

----------------------------------------------------------------------------
\* The linear programme of find_minimum_dominating_set. A 0/1 assignment of
\* the vertex variables is the set S of the vertices whose variable is 1.

\* A plausible slip: the vertex's own variable is left out of its condition.
ConditionLhsOpen(g, i, S) == Cardinality(Neighbors(g, i) \cap S)

\* lpSum(vertex_vars[j] for j in G.neighbors(i)) + vertex_vars[i]
ConditionLhs(g, i, S) ==
    Cardinality(Neighbors(g, i) \cap S) + (IF i \in S THEN 1 ELSE 0)

\* A plausible slip: the bound of the condition is 0.
DominatingConditionSlack(g, i, S) == ConditionLhs(g, i, S) >= 0

\* DominatingCondition_i: ... >= 1
DominatingCondition(g, i, S) == ConditionLhs(g, i, S) >= 1

\* A plausible slip: the objective counts the heavy edges (weight above 1.0) at
\* the chosen vertices instead of the chosen vertices.
ObjectiveWeighted(g, S) ==
    Cardinality({p \in DOMAIN g.weight : p[1] \in S /\ g.weight[p] > 10})

\* MinimizeDominatingSetSize: lpSum(vertex_vars[i] for i in G.nodes())
Objective(g, S) == Cardinality(S)

\* A plausible slip: the all-zero assignment is refused.
FeasibleNonEmpty(g) ==
    {S \in SUBSET NodeSet(g) \ {{}} :
        \A i \in NodeSet(g) : DominatingCondition(g, i, S)}

\* The assignments that satisfy every condition.
Feasible(g) ==
    {S \in SUBSET NodeSet(g) : \A i \in NodeSet(g) : DominatingCondition(g, i, S)}

\* prob.solve(): the assignments the solver may hand back.
OptimalSolutions(g) ==
    {S \in Feasible(g) : \A T \in Feasible(g) : Objective(g, S) <= Objective(g, T)}

\* prob.status after prob.solve()
LpStatus(g) == IF Feasible(g) = {} THEN "Infeasible" ELSE "Optimal"

\* [v for v in G.nodes() if plp.value(vertex_vars[v]) == 1]
Extract(g, S) == SelectSeq(g.node, LAMBDA v : v \in S)

----------------------------------------------------------------------------
Init ==
    /\ G = NewGraph
    /\ rows = <<>>
    /\ pc = "reading"
    /\ err = ""
    /\ dominating_set = <<>>
    /\ status = "Not Solved"
    /\ calls = 0
    /\ prevSize = -1
    /\ budget = -1

\* One iteration of the loop of read_graph_from_csv on a row whose weight
\* cell float() accepts.
ReadRow ==
    /\ pc = "reading"
    /\ Len(rows) < MaxRows
    /\ \E r \in Rows :
          /\ ParseFloat(r.Weight).raises = ""
          /\ G' = add_edge(G, r.Source, r.Target, ParseFloat(r.Weight).value)
          /\ rows' = Append(rows, r)
    /\ UNCHANGED <<pc, err, dominating_set, status, calls, prevSize, budget>>

\* One iteration on a row whose weight cell float() refuses: the exception
\* leaves read_graph_from_csv before add_edge is called.
ReadBadRow ==
    /\ pc = "reading"
    /\ Len(rows) < MaxRows
    /\ \E r \in Rows :
          /\ ParseFloat(r.Weight).raises # ""
          /\ err' = ParseFloat(r.Weight).raises
    /\ pc' = "error"
    /\ UNCHANGED <<G, rows, dominating_set, status, calls, prevSize, budget>>

\* End of file: return G
ReturnGraph ==
    /\ pc = "reading"
    /\ pc' = "built"
    /\ UNCHANGED <<G, rows, err, dominating_set, status, calls, prevSize, budget>>

\* A plausible slip: the chosen vertices are taken out of the caller's graph.
find_minimum_dominating_set_consuming ==
    /\ pc \in {"built", "solved"}
    /\ calls < MaxCalls
    /\ \E S \in (IF Feasible(G) = {} THEN SUBSET NodeSet(G) ELSE OptimalSolutions(G)) :
          /\ dominating_set' = Extract(G, S)
          /\ G' = [node |-> SelectSeq(G.node, LAMBDA v : v \notin S),
                   adj |-> [x \in NodeSet(G) \ S |-> G.adj[x] \ S],
                   weight |-> [p \in {q \in DOMAIN G.weight :
                                         q[1] \notin S /\ q[2] \notin S} |->
                                  G.weight[p]]]
    /\ status' = LpStatus(G)
    /\ prevSize' = IF calls = 0 THEN -1 ELSE Len(dominating_set)
    /\ calls' = calls + 1
    /\ budget' = -1
    /\ pc' = "solved"
    /\ UNCHANGED <<rows, err>>

\* find_minimum_dominating_set(G)
find_minimum_dominating_set ==
    /\ pc \in {"built", "solved"}
    /\ calls < MaxCalls
    /\ \E S \in (IF Feasible(G) = {} THEN SUBSET NodeSet(G) ELSE OptimalSolutions(G)) :
          dominating_set' = Extract(G, S)
    /\ status' = LpStatus(G)
    /\ prevSize' = IF calls = 0 THEN -1 ELSE Len(dominating_set)
    /\ calls' = calls + 1
    /\ budget' = -1
    /\ pc' = "solved"
    /\ UNCHANGED <<G, rows, err>>

\* find_minimum_dominating_set(G, maxNodes=0): the function takes G alone, so
\* the call raises TypeError before its body runs.
find_minimum_dominating_set_budget ==
    /\ pc \in {"built", "solved"}
    /\ calls < MaxCalls
    /\ budget' = 0
    /\ calls' = calls + 1
    /\ pc' = "error"
    /\ err' = "TypeError"
    /\ UNCHANGED <<G, rows, dominating_set, status, prevSize>>

Next ==
    \/ ReadRow
    \/ ReadBadRow
    \/ ReturnGraph
    \/ find_minimum_dominating_set
    \/ find_minimum_dominating_set_budget

Spec == Init /\ [][Next]_vars

----------------------------------------------------------------------------
\* read_graph_from_csv as a function of the rows it reads.
RECURSIVE BuildGraph(_)
BuildGraph(rs) ==
    IF rs = <<>>
    THEN NewGraph
    ELSE LET r == rs[Len(rs)]
         IN  add_edge(BuildGraph(SubSeq(rs, 1, Len(rs) - 1)),
                      r.Source, r.Target, ParseFloat(r.Weight).value)

----------------------------------------------------------------------------
\* Reference notions the claims are stated with.

SetOf(seq) == {seq[i] : i \in 1..Len(seq)}

\* S dominates g: every vertex is in S or has a neighbour in S.
IsDominatingSet(g, S) ==
    \A v \in NodeSet(g) : v \in S \/ \E w \in Neighbors(g, v) : w \in S

\* Brute force over all vertex subsets: the least size of a dominating set.
BruteForceMin(g) ==
    LET sizes == {Cardinality(S) : S \in {T \in SUBSET NodeSet(g) : IsDominatingSet(g, T)}}
    IN  CHOOSE n \in sizes : \A m \in sizes : n <= m

\* The stable total order of the vertices.
VertexRank(v) == CASE v = "a" -> 1 [] v = "b" -> 2 [] v = "c" -> 3 [] OTHER -> 4

\* Closed neighbourhood N+(v).
ClosedNeighborhood(g, v) == Neighbors(g, v) \cup {v}

\* The greedy upper bound: repeatedly take the vertex whose closed
\* neighbourhood covers the most undominated vertices, ties by vertex order.
RECURSIVE GreedySize(_, _)
GreedySize(g, dominated) ==
    IF NodeSet(g) \subseteq dominated
    THEN 0
    ELSE LET gain(v) == Cardinality(ClosedNeighborhood(g, v) \ dominated)
             best == CHOOSE v \in NodeSet(g) :
                        \A w \in NodeSet(g) :
                            \/ gain(v) > gain(w)
                            \/ gain(v) = gain(w) /\ VertexRank(v) <= VertexRank(w)
         IN  1 + GreedySize(g, dominated \cup ClosedNeighborhood(g, best))

ValidWeightFields == {s \in WeightFields : ParseFloat(s).raises = ""}

\* The edge lists with the endpoints of rs, in the same order, and any weights.
Reweighted(rs) ==
    {[i \in 1..Len(rs) |-> [rs[i] EXCEPT !.Weight = ws[i]]] :
        ws \in [1..Len(rs) -> ValidWeightFields]}

\* A call of find_minimum_dominating_set(G) has returned.
Returned == pc = "solved"

----------------------------------------------------------------------------
\* C1: the list returned by find_minimum_dominating_set(G) holds only vertices
\* of G and is a dominating set of G: every vertex is in it or has a
\* neighbour in it.
C1_ReturnedSetDominates ==
    Returned =>
        /\ SetOf(dominating_set) \subseteq NodeSet(G)
        /\ IsDominatingSet(G, SetOf(dominating_set))

\* A three-vertex graph solved with one vertex, the others dominated by it.
C1_Witness ==
    /\ Returned
    /\ Len(G.node) = 3
    /\ Len(dominating_set) = 1
    /\ \E v \in NodeSet(G) : v \notin SetOf(dominating_set)

\* C2: the size of the returned list equals the least size of a dominating
\* set found by enumerating every vertex subset.
C2_SizeIsBruteForceMinimum ==
    Returned => Len(dominating_set) = BruteForceMin(G)

\* A three-vertex graph whose minimum is 2: neither 1 nor all the vertices.
C2_Witness ==
    /\ Returned
    /\ Len(G.node) = 3
    /\ Len(dominating_set) = 2
    /\ BruteForceMin(G) = 2

\* C3: a row whose two endpoints are the same vertex is never inserted (the
\* build fails instead), so no graph handed to the solver has a self-loop.
C3_SelfLoopRejected ==
    /\ \A i \in 1..Len(rows) : rows[i].Source # rows[i].Target
    /\ pc \in {"built", "solved"} => \A v \in NodeSet(G) : v \notin Neighbors(G, v)

\* C4: on the graph with no vertex (no row read) the solver returns the empty
\* list, with the programme solved to optimality and no exception.
C4_EmptyGraphSolved ==
    (calls > 0 /\ budget = -1 /\ Len(G.node) = 0) =>
        /\ pc = "solved"
        /\ err = ""
        /\ dominating_set = <<>>
        /\ status = "Optimal"

\* The solver has been called on the graph built from no row.
C4_Witness ==
    /\ rows = <<>>
    /\ calls > 0
    /\ budget = -1
    /\ pc = "solved"
    /\ dominating_set = <<>>

\* C5: weights are inert: an edge list with the same endpoints in the same
\* order and other weights builds the same vertices and adjacency, and every
\* list the solver can return for it has the size of the list returned here.
C5_WeightsInert ==
    \A rs2 \in Reweighted(rows) :
        LET g2 == BuildGraph(rs2)
        IN  /\ g2.node = G.node
            /\ g2.adj = G.adj
            /\ Returned =>
                  \A S \in OptimalSolutions(g2) :
                      Len(Extract(g2, S)) = Len(dominating_set)

\* A solved graph built from rows of different weights, reweightable to a
\* graph of different weights.
C5_Witness ==
    /\ Returned
    /\ Len(rows) >= 2
    /\ rows[1].Weight # rows[2].Weight
    /\ \E rs2 \in Reweighted(rows) : BuildGraph(rs2).weight # G.weight

\* C6: a call with maxNodes = 0 returns without an exception a result not
\* flagged optimal, of the size of the greedy upper bound; and a call without
\* a budget is always flagged optimal.
C6_BudgetZeroDegrades ==
    /\ budget = 0 =>
          /\ pc = "solved"
          /\ err = ""
          /\ status # "Optimal"
          /\ Len(dominating_set) = GreedySize(G, {})
    /\ (Returned /\ budget = -1) => status = "Optimal"

\* C8: adjacency is symmetric in every state, and inserting an edge that is
\* already present, in either orientation and with any weight, leaves the
\* vertex list and the adjacency as they were.
C8_InsertSymmetricIdempotent ==
    /\ [](\A u \in DOMAIN G.adj : \A v \in DOMAIN G.adj :
              v \in G.adj[u] <=> u \in G.adj[v])
    /\ [](DOMAIN G.adj = NodeSet(G))
    /\ [][(/\ Len(rows') = Len(rows) + 1
           /\ rows'[Len(rows')].Source \in NodeSet(G)
           /\ rows'[Len(rows')].Target \in NodeSet(G)
           /\ rows'[Len(rows')].Target \in G.adj[rows'[Len(rows')].Source])
            => (G'.node = G.node /\ G'.adj = G.adj)]_vars

\* An edge inserted a second time, reversed and with another weight.
C8_Witness ==
    /\ Len(rows) >= 2
    /\ rows[1].Source # rows[1].Target
    /\ rows[2].Source = rows[1].Target
    /\ rows[2].Target = rows[1].Source
    /\ rows[2].Weight # rows[1].Weight
    /\ G.adj[rows[1].Source] = {rows[1].Target}
    /\ G.weight[<<rows[1].Source, rows[1].Target>>] = ParseFloat(rows[2].Weight).value

\* C9: a call of find_minimum_dominating_set leaves the vertices, the
\* adjacency and the weights of G as they were, and a second call on the same
\* graph returns a list of the size of the first.
C9_SolverLeavesGraph ==
    /\ [][(calls' = calls + 1) => G' = G]_vars
    /\ []((Returned /\ calls >= 2) => prevSize = Len(dominating_set))

\* Two calls on a three-vertex graph.
C9_Witness ==
    /\ Returned
    /\ calls = 2
    /\ Len(G.node) = 3
    /\ prevSize = Len(dominating_set)
    /\ prevSize >= 1

\* C10: the vertices of the graph are exactly the endpoints of the rows read,
\* and every vertex has an incident edge.
C10_VerticesAreEndpoints ==
    /\ NodeSet(G) = {rows[i].Source : i \in 1..Len(rows)}
                      \cup {rows[i].Target : i \in 1..Len(rows)}
    /\ DOMAIN G.adj = NodeSet(G)
    /\ \A v \in NodeSet(G) : Neighbors(G, v) # {}
    /\ \A v \in NodeSet(G) : \E i \in 1..Len(rows) : v \in {rows[i].Source, rows[i].Target}

\* A graph returned by the loader whose vertices came in as targets and as
\* sources of different rows.
C10_Witness ==
    /\ pc = "built"
    /\ Len(rows) >= 2
    /\ Len(G.node) = 3
    /\ \E v \in NodeSet(G) : \A i \in 1..Len(rows) : rows[i].Source # v

====
